---- MODULE Spec2Model ----
(***************************************************************************)
(* Access group classification (equivalence_access_control.py).            *)
(*                                                                         *)
(* A Python str is modelled as a sequence of one-character strings, so     *)
(* that str.strip() and str.lower() are computed character by character.   *)
(* A dict is modelled as the sequence of its entries in insertion order    *)
(* (Python dicts iterate in insertion order); keys occur at most once.     *)
(* A User object is a record; its uid doubles as the object's identity.    *)
(***************************************************************************)
EXTENDS Integers, Sequences, FiniteSets, TLC

\* ------------------------------------------------------------------ bounds

\* Number of "3. Add user" choices that get past the name check in one session.
MaxAdds == 2

\* Longest user list handed to build_classes in the classifier harness.
MaxLen == 3

\* ----------------------------------------------------------------- str model

Whitespace == {" ", "\t", "\n", "\r", "\f"}

UpperCase ==
    <<"A", "B", "C", "D", "E", "F", "G", "H", "I", "J", "K", "L", "M",
      "N", "O", "P", "Q", "R", "S", "T", "U", "V", "W", "X", "Y", "Z">>

LowerCase ==
    <<"a", "b", "c", "d", "e", "f", "g", "h", "i", "j", "k", "l", "m",
      "n", "o", "p", "q", "r", "s", "t", "u", "v", "w", "x", "y", "z">>

\* The lowercase letter of each uppercase letter.
LowerOf ==
    [c \in {UpperCase[i] : i \in 1..Len(UpperCase)} |->
        LowerCase[CHOOSE i \in 1..Len(UpperCase) : UpperCase[i] = c]]

\* str.lower() of one character.
lower_char(c) == IF c \in DOMAIN LowerOf THEN LowerOf[c] ELSE c

\* str.lower()
lower(s) == [i \in 1..Len(s) |-> lower_char(s[i])]

\* str.strip(): drop the leading and the trailing whitespace.
strip(s) ==
    LET idx == {i \in 1..Len(s) : s[i] \notin Whitespace}
    IN  IF idx = {} THEN <<>>
        ELSE LET lo == CHOOSE i \in idx : \A j \in idx : i <= j
                 hi == CHOOSE i \in idx : \A j \in idx : j <= i
             IN  SubSeq(s, lo, hi)

\* `x or d` on strings: the empty string is falsy.
or_default(x, d) == IF x = <<>> THEN d ELSE x

\* --------------------------------------------------------------- class User

\* Variant of User.__init__ that forgets .lower() on the clearance.
User_clearance_not_lowered(uid, name, dept, role, clearance) ==
    [uid       |-> uid,
     name      |-> name,
     dept      |-> lower(strip(dept)),
     role      |-> lower(strip(role)),
     clearance |-> strip(clearance)]

\* User.__init__
User(uid, name, dept, role, clearance) ==
    [uid       |-> uid,
     name      |-> name,
     dept      |-> lower(strip(dept)),
     role      |-> lower(strip(role)),
     clearance |-> lower(strip(clearance))]

\* User.attr_tuple
attr_tuple(u) == <<u.dept, u.role, u.clearance>>

\* ------------------------------------------------------------ dict helpers

\* `key in groups` / `groups.get(key)` on the entry sequence.
has_key(d, key) == \E i \in 1..Len(d) : d[i].key = key

index_of(d, key) == CHOOSE i \in 1..Len(d) : d[i].key = key

\* ------------------------------------------------------------ build_classes

\* Variant of the loop body that puts a new key before the existing ones.
defaultdict_append_new_key_first(groups, u) ==
    LET key == attr_tuple(u)
    IN  IF has_key(groups, key)
        THEN [groups EXCEPT ![index_of(groups, key)].members = Append(@, u)]
        ELSE <<[key |-> key, members |-> <<u>>]>> \o groups

\* One iteration of the loop: groups[u.attr_tuple()].append(u) on a
\* defaultdict(list): a missing key is inserted (at the end) with [] first.
defaultdict_append(groups, u) ==
    LET key == attr_tuple(u)
    IN  IF has_key(groups, key)
        THEN [groups EXCEPT ![index_of(groups, key)].members = Append(@, u)]
        ELSE Append(groups, [key |-> key, members |-> <<u>>])

RECURSIVE build_loop(_, _)
build_loop(users, n) ==
    IF n = 0 THEN <<>>
    ELSE defaultdict_append(build_loop(users, n - 1), users[n])

build_classes(users) == build_loop(users, Len(users))

\* --------------------------------------------------------- check_reflexive

check_reflexive(users, groups) ==
    \A i \in 1..Len(users) :
        LET key == attr_tuple(users[i])
            got == IF has_key(groups, key)
                   THEN groups[index_of(groups, key)].members ELSE <<>>
        IN  \E j \in 1..Len(got) : got[j] = users[i]

\* ------------------------------------------------------ assign_permissions

\* Variant of the if/elif/else whose first tuple lacks "level3".
clearance_perm_level3_missing(clr) ==
    IF clr \in {<<"h", "i", "g", "h">>, <<"t", "o", "p">>, <<"3">>}
    THEN "Level 3 Access"
    ELSE IF clr \in {<<"m", "e", "d", "i", "u", "m">>, <<"2">>,
                     <<"l", "e", "v", "e", "l", "2">>}
    THEN "Level 2 Access"
    ELSE "Level 1 Access"

\* The if/elif/else on clr = key[2].
clearance_perm(clr) ==
    IF clr \in {<<"h", "i", "g", "h">>, <<"t", "o", "p">>, <<"3">>,
                <<"l", "e", "v", "e", "l", "3">>}
    THEN "Level 3 Access"
    ELSE IF clr \in {<<"m", "e", "d", "i", "u", "m">>, <<"2">>,
                     <<"l", "e", "v", "e", "l", "2">>}
    THEN "Level 2 Access"
    ELSE "Level 1 Access"

\* perms[key] = ... for key in groups (keys of a dict are distinct, so each
\* assignment inserts a new entry, in the order of groups).
assign_permissions(groups) ==
    [i \in 1..Len(groups) |->
        [key |-> groups[i].key, perm |-> clearance_perm(groups[i].key[3])]]

\* ---------------------------------------------------- add_user_interactive

\* Variant of the role default: the department's literal.
s_staff_wrong_default == <<"u", "n", "k", "n", "o", "w", "n">>

\* The literals of the three `or` defaults.
s_unknown == <<"u", "n", "k", "n", "o", "w", "n">>
s_staff == <<"s", "t", "a", "f", "f">>
s_low == <<"l", "o", "w">>

\* Variants of add_user_interactive, selected by v:
\*   "raw_name":     the emptiness test is made on the untrimmed name;
\*   "no_list":      users.append(u) is forgotten;
\*   "insert_front": an existing group gets the user at its front.
add_user_variant(next_uid, users, groups, inp, v) ==
    LET name == IF v = "raw_name" THEN inp.name ELSE strip(inp.name)
    IN  IF name = <<>>
        THEN [ret |-> <<>>, users |-> users, groups |-> groups,
              out |-> "Name cannot be empty."]
        ELSE
        LET dept      == or_default(strip(inp.dept), s_unknown)
            role      == or_default(strip(inp.role), s_staff)
            clearance == or_default(strip(inp.clearance), s_low)
            u         == User(next_uid, name, dept, role, clearance)
            key       == attr_tuple(u)
            users2    == IF v = "no_list" THEN users ELSE Append(users, u)
        IN  IF has_key(groups, key)
            THEN [ret    |-> <<u>>,
                  users  |-> users2,
                  groups |-> [groups EXCEPT
                                ![index_of(groups, key)].members =
                                    IF v = "insert_front" THEN <<u>> \o @
                                    ELSE Append(@, u)],
                  out    |-> "Added to existing group."]
            ELSE [ret    |-> <<u>>,
                  users  |-> users2,
                  groups |-> Append(groups, [key |-> key, members |-> <<u>>]),
                  out    |-> "Created new group."]

add_user_raw_name(next_uid, users, groups, inp) ==
    add_user_variant(next_uid, users, groups, inp, "raw_name")

add_user_no_list(next_uid, users, groups, inp) ==
    add_user_variant(next_uid, users, groups, inp, "no_list")

add_user_insert_front(next_uid, users, groups, inp) ==
    add_user_variant(next_uid, users, groups, inp, "insert_front")

\* add_user_interactive(next_uid, users, groups); inp holds the answers to
\* the four input() prompts (only the first is read when the name is empty).
\* users and groups are mutated in place: the result carries their new
\* values, the return value (<<>> for None, <<u>> for u) and what is printed.
add_user_interactive(next_uid, users, groups, inp) ==
    LET name == strip(inp.name)
    IN  IF name = <<>>
        THEN [ret |-> <<>>, users |-> users, groups |-> groups,
              out |-> "Name cannot be empty."]
        ELSE
        LET dept      == or_default(strip(inp.dept), s_unknown)
            role      == or_default(strip(inp.role), s_staff)
            clearance == or_default(strip(inp.clearance), s_low)
            u         == User(next_uid, name, dept, role, clearance)
            key       == attr_tuple(u)
        IN  IF has_key(groups, key)
            THEN [ret    |-> <<u>>,
                  users  |-> Append(users, u),
                  groups |-> [groups EXCEPT
                                ![index_of(groups, key)].members = Append(@, u)],
                  out    |-> "Added to existing group."]
            ELSE [ret    |-> <<u>>,
                  users  |-> Append(users, u),
                  groups |-> Append(groups, [key |-> key, members |-> <<u>>]),
                  out    |-> "Created new group."]

\* ---------------------------------------------------------------- demo_data

\* The arguments of the eight User(...) calls of demo_data.
demo_rows ==
    <<
      [uid |-> 1, name |-> <<"A", "l", "i", "c", "e", " ", "S", "m", "i", "t", "h">>,
       dept |-> <<"E", "n", "g", "i", "n", "e", "e", "r", "i", "n", "g">>,
       role |-> <<"D", "e", "v", "e", "l", "o", "p", "e", "r">>, clearance |-> <<"H", "i", "g", "h">>],
      [uid |-> 2, name |-> <<"B", "o", "b", " ", "J", "o", "n", "e", "s">>,
       dept |-> <<"E", "n", "g", "i", "n", "e", "e", "r", "i", "n", "g">>,
       role |-> <<"D", "e", "v", "e", "l", "o", "p", "e", "r">>, clearance |-> <<"H", "i", "g", "h">>],
      [uid |-> 3, name |-> <<"C", "h", "a", "r", "l", "i", "e", " ", "R", "a", "y">>,
       dept |-> <<"E", "n", "g", "i", "n", "e", "e", "r", "i", "n", "g">>,
       role |-> <<"T", "e", "s", "t", "e", "r">>, clearance |-> <<"M", "e", "d", "i", "u", "m">>],
      [uid |-> 4, name |-> <<"D", "i", "a", "n", "a", " ", "K", "i", "n", "g">>,
       dept |-> <<"H", "R">>,
       role |-> <<"M", "a", "n", "a", "g", "e", "r">>, clearance |-> <<"H", "i", "g", "h">>],
      [uid |-> 5, name |-> <<"E", "v", "e", " ", "S", "t", "o", "n", "e">>,
       dept |-> <<"H", "R">>,
       role |-> <<"M", "a", "n", "a", "g", "e", "r">>, clearance |-> <<"H", "i", "g", "h">>],
      [uid |-> 6, name |-> <<"F", "r", "a", "n", "k", " ", "L", "i", "u">>,
       dept |-> <<"F", "i", "n", "a", "n", "c", "e">>,
       role |-> <<"A", "n", "a", "l", "y", "s", "t">>, clearance |-> <<"L", "o", "w">>],
      [uid |-> 7, name |-> <<"G", "r", "a", "c", "e", " ", "Y">>,
       dept |-> <<"E", "n", "g", "i", "n", "e", "e", "r", "i", "n", "g">>,
       role |-> <<"D", "e", "v", "e", "l", "o", "p", "e", "r">>, clearance |-> <<"H", "i", "g", "h">>],
      [uid |-> 8, name |-> <<"H", "e", "c", "t", "o", "r", " ", "Z">>,
       dept |-> <<"F", "i", "n", "a", "n", "c", "e">>,
       role |-> <<"A", "n", "a", "l", "y", "s", "t">>, clearance |-> <<"L", "o", "w">>]
    >>

\* The list of User objects built from constructor arguments.
construct(rows) ==
    [i \in 1..Len(rows) |->
        User(rows[i].uid, rows[i].name, rows[i].dept, rows[i].role,
             rows[i].clearance)]

demo_data == construct(demo_rows)

\* max(u.uid for u in users)
max_uid(users) ==
    CHOOSE m \in {users[i].uid : i \in 1..Len(users)} :
        \A i \in 1..Len(users) : users[i].uid <= m

\* ------------------------------------------------------------------- inputs

\* What may be typed at the prompts of "3. Add user".
InNames == {<<>>, <<" ">>, <<" ", "Z", "o", "e", " ">>}
InDepts == {<<>>, <<" ", "h", "r", " ">>}
InRoles == {<<>>, <<"m", "a", "n", "a", "g", "e", "r", " ">>}
InClearances == {<<>>, <<"H", "I", "G", "H", " ">>, <<"m", "e", "d", "i", "u", "m">>}

\* The answers to one "3. Add user": when the name is empty after trimming
\* the function returns before the other three prompts, which get no answer.
AddInputs ==
    {inp \in [name : InNames, dept : InDepts, role : InRoles,
              clearance : InClearances] :
        strip(inp.name) = <<>> =>
            (inp.dept = <<>> /\ inp.role = <<>> /\ inp.clearance = <<>>)}

\* (dept, role, clearance) constructor arguments for the classifier harness.
HarnessTriples ==
    {
      <<<<"H", "R">>, <<"D", "e", "v">>, <<"H", "i", "g", "h">>>>,
      <<<<"H", "R">>, <<"D", "e", "v">>, <<"t", "o", "p">>>>,
      <<<<"H", "R">>, <<"D", "e", "v">>, <<"3">>>>,
      <<<<"H", "R">>, <<"D", "e", "v">>, <<"l", "e", "v", "e", "l", "3">>>>,
      <<<<"H", "R">>, <<"D", "e", "v">>, <<"M", "e", "d", "i", "u", "m">>>>,
      <<<<"H", "R">>, <<"D", "e", "v">>, <<"2">>>>,
      <<<<"H", "R">>, <<"D", "e", "v">>, <<"l", "e", "v", "e", "l", "2">>>>,
      <<<<"H", "R">>, <<"D", "e", "v">>, <<"l", "o", "w">>>>,
      <<<<"H", "R">>, <<"D", "e", "v">>, <<>>>>,
      <<<<"H", "R">>, <<"D", "e", "v">>, <<"g", "u", "e", "s", "t">>>>,
      <<<<" ", "h", "r", " ">>, <<"d", "e", "v", "	">>, <<" ", "H", "I", "G", "H">>>>,
      <<<<"I", "t">>, <<"D", "e", "v">>, <<"H", "i", "g", "h">>>>,
      <<<<"H", "R">>, <<>>, <<"3">>>>
    }

harness_row(i, tr) ==
    [uid |-> i, name |-> <<"u">>, dept |-> tr[1], role |-> tr[2],
     clearance |-> tr[3]]

\* -------------------------------------------------------------------- state

VARIABLES
    users,      \* main's list of User objects
    groups,     \* main's dict key -> list of User, as entries [key, members]
    perms,      \* main's dict key -> permission text, as entries [key, perm]
    next_uid,   \* main's next_uid
    pc,         \* "start": before line 112; "menu": in the loop; "done": after break
    out,        \* the last line printed
    ctor_args   \* history: the arguments of every User(...) call, in order

vars == <<users, groups, perms, next_uid, pc, out, ctor_args>>

\* The program: main() is about to run; demo_data() will make its User calls.
Init ==
    /\ users = <<>>
    /\ groups = <<>>
    /\ perms = <<>>
    /\ next_uid = 0
    /\ pc = "start"
    /\ out = ""
    /\ ctor_args = demo_rows

\* The classifier harness: main() run on any non-empty list of users (ids 1..n)
\* in place of demo_data().
InitAny ==
    /\ users = <<>>
    /\ groups = <<>>
    /\ perms = <<>>
    /\ next_uid = 0
    /\ pc = "start"
    /\ out = ""
    /\ \E n \in 1..MaxLen : \E f \in [1..n -> HarnessTriples] :
          ctor_args = [i \in 1..n |-> harness_row(i, f[i])]

\* main, lines 111-115.
Start ==
    /\ pc = "start"
    /\ users' = construct(ctor_args)
    /\ groups' = build_classes(users')
    /\ perms' = assign_permissions(groups')
    /\ next_uid' = max_uid(users') + 1
    /\ pc' = "menu"
    /\ out' = "Access Group Classification - Interactive"
    /\ UNCHANGED ctor_args

\* choice "2": perms = assign_permissions(groups); print_groups(groups, perms)
ShowGroups ==
    /\ pc = "menu"
    /\ perms' = assign_permissions(groups)
    /\ out' = "--- Access Groups ---"
    /\ UNCHANGED <<users, groups, next_uid, pc, ctor_args>>

\* Variants of choice "3":
\*   "lazy":   perms is not reassigned after a successful add;
\*   "always": next_uid += 1 is executed whether or not a user was added.
AddUserVariant(inp, v) ==
    /\ pc = "menu"
    /\ strip(inp.name) = <<>> \/ Len(users) < Len(demo_rows) + MaxAdds
    /\ LET r == add_user_interactive(next_uid, users, groups, inp)
       IN  /\ out' = r.out
           /\ users' = r.users
           /\ groups' = r.groups
           /\ next_uid' = IF r.ret # <<>> \/ v = "always"
                          THEN next_uid + 1 ELSE next_uid
           /\ perms' = IF r.ret # <<>> /\ v # "lazy"
                       THEN assign_permissions(groups') ELSE perms
           /\ ctor_args' =
                IF r.ret # <<>>
                THEN Append(ctor_args,
                            [uid       |-> next_uid,
                             name      |-> strip(inp.name),
                             dept      |-> or_default(strip(inp.dept), s_unknown),
                             role      |-> or_default(strip(inp.role), s_staff),
                             clearance |-> or_default(strip(inp.clearance), s_low)])
                ELSE ctor_args
    /\ UNCHANGED pc

AddUser_lazy_perms(inp) == AddUserVariant(inp, "lazy")

AddUser_uid_always_incremented(inp) == AddUserVariant(inp, "always")

\* choice "3" with the answers inp.
AddUser(inp) ==
    /\ pc = "menu"
    /\ strip(inp.name) = <<>> \/ Len(users) < Len(demo_rows) + MaxAdds
    /\ LET r == add_user_interactive(next_uid, users, groups, inp)
       IN  /\ out' = r.out
           /\ users' = r.users
           /\ groups' = r.groups
           /\ IF r.ret # <<>>
              THEN /\ next_uid' = next_uid + 1
                   /\ perms' = assign_permissions(groups')
                   /\ ctor_args' =
                        Append(ctor_args,
                               [uid       |-> next_uid,
                                name      |-> strip(inp.name),
                                dept      |-> or_default(strip(inp.dept), s_unknown),
                                role      |-> or_default(strip(inp.role), s_staff),
                                clearance |-> or_default(strip(inp.clearance), s_low)])
              ELSE UNCHANGED <<next_uid, perms, ctor_args>>
    /\ UNCHANGED pc

\* choice "4"
CheckRelation ==
    /\ pc = "menu"
    /\ out' = IF check_reflexive(users, groups)
              THEN "Reflexive: True" ELSE "Reflexive: False"
    /\ UNCHANGED <<users, groups, perms, next_uid, pc, ctor_args>>

RECURSIVE accumulate_loop(_, _, _)
accumulate_loop(g, us, n) ==
    IF n = 0 THEN g
    ELSE defaultdict_append(accumulate_loop(g, us, n - 1), us[n])

\* Variant of choice "6" that fills the existing dict instead of a fresh one.
Recompute_into_existing ==
    /\ pc = "menu"
    /\ groups' = accumulate_loop(groups, users, Len(users))
    /\ perms' = assign_permissions(groups')
    /\ out' = "Recomputed groups and permissions."
    /\ UNCHANGED <<users, next_uid, pc, ctor_args>>

\* choice "6"
Recompute ==
    /\ pc = "menu"
    /\ groups' = build_classes(users)
    /\ perms' = assign_permissions(groups')
    /\ out' = "Recomputed groups and permissions."
    /\ UNCHANGED <<users, next_uid, pc, ctor_args>>

\* choice "8"
Exit ==
    /\ pc = "menu"
    /\ pc' = "done"
    /\ out' = "Exiting."
    /\ UNCHANGED <<users, groups, perms, next_uid, ctor_args>>

Next ==
    \/ Start
    \/ ShowGroups
    \/ \E inp \in AddInputs : AddUser(inp)
    \/ CheckRelation
    \/ Recompute
    \/ Exit

Spec == Init /\ [][Next]_vars

NextAny ==
    \/ Start
    \/ ShowGroups
    \/ CheckRelation
    \/ Recompute
    \/ Exit

SpecAny == InitAny /\ [][NextAny]_vars

\* =================================================================== claims

\* Positions <<g, j>> of the grouping: member j of group g.
Slots ==
    UNION {{<<g, j>> : j \in 1..Len(groups[g].members)} : g \in 1..Len(groups)}

InGroup(u, g) == \E j \in 1..Len(groups[g].members) : groups[g].members[j] = u

\* C1: once main has built the grouping, the groups partition the user list:
\* every user of the list fills exactly one slot of the grouping, every slot
\* holds a user of the list, and no group is empty.
C1_GroupsPartitionUsers ==
    pc # "start" =>
        /\ \A i \in 1..Len(users) :
              Cardinality({sl \in Slots :
                              groups[sl[1]].members[sl[2]] = users[i]}) = 1
        /\ \A sl \in Slots :
              \E i \in 1..Len(users) : users[i] = groups[sl[1]].members[sl[2]]
        /\ \A g \in 1..Len(groups) : Len(groups[g].members) > 0

\* A recompute after two adds, one of which made a fifth group.
C1_Witness ==
    /\ pc = "menu"
    /\ Len(users) = Len(demo_rows) + 2
    /\ Len(groups) > 4
    /\ out = "Recomputed groups and permissions."

\* trim+lowercase of the three fields a User was constructed from.
NormTriple(row) ==
    <<lower(strip(row.dept)), lower(strip(row.role)), lower(strip(row.clearance))>>

\* C2: every user is a member of the group whose key is the trimmed,
\* lowercased triple of the fields it was constructed from, and of no other
\* group; distinct groups have distinct keys, so two users share a group
\* iff their normalized triples are equal.
C2_GroupKeyIsNormalizedTriple ==
    pc # "start" =>
        /\ Len(ctor_args) = Len(users)
        /\ \A i \in 1..Len(users) :
              LET norm == NormTriple(ctor_args[i])
              IN  /\ \E g \in 1..Len(groups) : InGroup(users[i], g)
                  /\ \A g \in 1..Len(groups) :
                        InGroup(users[i], g) <=> groups[g].key = norm
        /\ \A g, h \in 1..Len(groups) :
              groups[g].key = groups[h].key => g = h

\* Two users constructed from fields that differ in every component (by
\* letter case only) share a group.
C2_Witness ==
    /\ pc = "menu"
    /\ \E i, k \in 1..Len(users) :
          /\ ctor_args[i].dept # ctor_args[k].dept
          /\ ctor_args[i].role # ctor_args[k].role
          /\ ctor_args[i].clearance # ctor_args[k].clearance
          /\ \E g \in 1..Len(groups) :
                InGroup(users[i], g) /\ InGroup(users[k], g)

\* The precedence table of the permission tiers, as the claim states it.
TableTier(clr) ==
    CASE clr \in {<<"h", "i", "g", "h">>, <<"t", "o", "p">>, <<"3">>,
                  <<"l", "e", "v", "e", "l", "3">>} -> "Level 3 Access"
      [] clr \in {<<"m", "e", "d", "i", "u", "m">>, <<"2">>,
                  <<"l", "e", "v", "e", "l", "2">>} -> "Level 2 Access"
      [] OTHER -> "Level 1 Access"

\* C3: the permission mapping has exactly the grouping's keys as its domain
\* and gives each key the tier the table gives its clearance, whatever the
\* department and the role are.
C3_PermsFollowClearanceTable ==
    pc # "start" =>
        /\ Len(perms) = Len(groups)
        /\ \A i \in 1..Len(perms) :
              /\ perms[i].key = groups[i].key
              /\ perms[i].perm = TableTier(perms[i].key[3])
        /\ \A i, k \in 1..Len(perms) :
              perms[i].key[3] = perms[k].key[3] => perms[i].perm = perms[k].perm

\* All three tiers at once: the empty clearance at level 1, level2 and level3.
C3_Witness ==
    /\ pc = "menu"
    /\ \E i, j, k \in 1..Len(perms) :
          /\ perms[i].key[3] = <<>> /\ perms[i].perm = "Level 1 Access"
          /\ perms[j].key[3] = <<"l", "e", "v", "e", "l", "2">>
          /\ perms[j].perm = "Level 2 Access"
          /\ perms[k].key[3] = <<"l", "e", "v", "e", "l", "3">>
          /\ perms[k].perm = "Level 3 Access"

\* The answers whose name is empty after trimming, and the others.
EmptyNameInputs == {inp \in AddInputs : strip(inp.name) = <<>>}

NamedInputs == AddInputs \ EmptyNameInputs

\* C4: an add whose name is empty after trimming changes neither the user
\* list nor the grouping.
C4_RejectedAddChangesNothing ==
    [][\A inp \in EmptyNameInputs :
          AddUser(inp) =>
              /\ users' = users
              /\ groups' = groups
              /\ out' = "Name cannot be empty."]_vars

\* A rejected add in a session that has added two users before.
C4_Witness ==
    /\ out = "Name cannot be empty."
    /\ Len(users) = Len(demo_rows) + 2
    /\ Len(groups) > 4

\* C5 as stated: a successful add leaves the permission mapping unchanged.
C5_AddLeavesPermsUnchanged ==
    [][\A inp \in NamedInputs :
          AddUser(inp) => perms' = perms]_vars

\* C5, amended: a successful add reassigns the permission mapping from the
\* updated grouping, so every group, a newly created one included, has its
\* tier at once; the mapping stays as it was only when no group was created.
C5_AddRefreshesPerms ==
    [][\A inp \in NamedInputs :
          AddUser(inp) =>
              /\ perms' = assign_permissions(groups')
              /\ \A g \in 1..Len(groups') :
                    \E i \in 1..Len(perms') :
                        /\ perms'[i].key = groups'[g].key
                        /\ perms'[i].perm = TableTier(groups'[g].key[3])
              /\ Len(groups') = Len(groups) => perms' = perms]_vars

\* Right after an add that created a group, the new group has a tier.
C5_Witness ==
    /\ out = "Created new group."
    /\ Len(groups) > 4
    /\ has_key(perms, groups[Len(groups)].key)
    /\ Len(groups[Len(groups)].members) = 1

\* C6: recompute never changes the user list, and a recompute that directly
\* follows a recompute changes neither the grouping nor the permissions.
C6_RecomputeIdempotent ==
    [][Recompute =>
          /\ users' = users
          /\ out = "Recomputed groups and permissions." =>
                (groups' = groups /\ perms' = perms)]_vars

\* A recompute has run on a user list that an add has extended.
C6_Witness ==
    /\ out = "Recomputed groups and permissions."
    /\ Len(users) > Len(demo_rows)
    /\ groups = build_classes(users)

\* Index of the first user whose key is key.
FirstIndex(key) ==
    CHOOSE i \in 1..Len(users) :
        /\ attr_tuple(users[i]) = key
        /\ \A j \in 1..(i - 1) : attr_tuple(users[j]) # key

HasKey(key, u) == attr_tuple(u) = key

\* The users with the given key, in list order.
ListedWithKey(key) == SelectSeq(users, LAMBDA u : HasKey(key, u))

\* C7: the classifier lists the keys in the order of their first occurrence
\* in the input, and each group's members in their input order.
C7_FirstOccurrenceOrder ==
    pc # "start" =>
        /\ {groups[g].key : g \in 1..Len(groups)}
              = {attr_tuple(users[i]) : i \in 1..Len(users)}
        /\ \A g, h \in 1..Len(groups) :
              g < h => FirstIndex(groups[g].key) < FirstIndex(groups[h].key)
        /\ \A g \in 1..Len(groups) :
              groups[g].members = ListedWithKey(groups[g].key)

\* Keys A, B, A: two groups, the first holding the first and the third user.
C7_Witness ==
    /\ pc = "menu"
    /\ Len(users) = 3
    /\ Len(groups) = 2
    /\ groups[1].members = <<users[1], users[3]>>
    /\ groups[2].members = <<users[2]>>

\* What a field typed at a prompt becomes in the user's key.
KeyField(typed, default) ==
    IF strip(typed) = <<>> THEN default ELSE lower(strip(typed))

\* C8: a successful add appends one user, with the defaults unknown / staff /
\* low for fields left empty, to the end of the user list, and either appends
\* it to the one group with its key or adds a singleton group at the end;
\* every other group is unchanged.
C8_AddChangesOnePlace ==
    [][\A inp \in NamedInputs :
          AddUser(inp) =>
              LET u   == users'[Len(users')]
                  key == <<KeyField(inp.dept, <<"u", "n", "k", "n", "o", "w", "n">>),
                           KeyField(inp.role, <<"s", "t", "a", "f", "f">>),
                           KeyField(inp.clearance, <<"l", "o", "w">>)>>
              IN  /\ users' = Append(users, u)
                  /\ u.name = strip(inp.name)
                  /\ attr_tuple(u) = key
                  /\ IF \E g \in 1..Len(groups) : groups[g].key = key
                     THEN /\ Len(groups') = Len(groups)
                          /\ \A g \in 1..Len(groups) :
                                IF groups[g].key = key
                                THEN groups'[g] =
                                        [key |-> key,
                                         members |-> Append(groups[g].members, u)]
                                ELSE groups'[g] = groups[g]
                     ELSE groups' =
                            Append(groups, [key |-> key, members |-> <<u>>])]_vars

\* All prompts but the name left empty: the singleton group unknown/staff/low.
C8_Witness ==
    /\ out = "Created new group."
    /\ groups[Len(groups)].key =
          << <<"u", "n", "k", "n", "o", "w", "n">>, <<"s", "t", "a", "f", "f">>,
             <<"l", "o", "w">> >>
    /\ groups[Len(groups)].members = <<users[Len(users)]>>

\* C9: ids strictly increase along the user list, each added user has the
\* id of its predecessor plus one, and next_uid is always the largest id plus
\* one (so a rejected add consumes no id).
C9_IdsSequential ==
    pc # "start" =>
        /\ \A i, j \in 1..Len(users) : i < j => users[i].uid < users[j].uid
        /\ \A i \in (Len(demo_rows) + 1)..Len(users) :
              users[i].uid = users[i - 1].uid + 1
        /\ next_uid = users[Len(users)].uid + 1

\* A rejected add after a successful one: next_uid is still the last id + 1.
C9_Witness ==
    /\ Len(users) = Len(demo_rows) + 1
    /\ users[Len(users)].uid = users[Len(demo_rows)].uid + 1
    /\ out = "Name cannot be empty."
    /\ next_uid = users[Len(users)].uid + 1

\* C10: the grouping main holds is always the classifier's result on the
\* current user list.
C10_GroupingEqualsRebuild ==
    pc # "start" => groups = build_classes(users)

\* Right after an add that joined an existing group, with no recompute since.
C10_Witness ==
    /\ out = "Added to existing group."
    /\ Len(users) = Len(demo_rows) + 2
    /\ Len(groups) = 5
    /\ Len(groups[5].members) = 2

====
